---- MODULE Spec2Model ----
(***************************************************************************)
(* Model of the bounded-preview GeoJSON extraction engine:                 *)
(*   large-file-handler.js      (stored as src/start-dev.sh, lines 23-694) *)
(*   universal-geojson-handler.js                                          *)
(*                                                                         *)
(* A file is a sequence of TOKENS.  A token stands for one byte of the     *)
(* file as far as offsets, window sizes and positions go, and for one run  *)
(* of text holding exactly one character the scanners look at:             *)
(*   "{" "}" "[" "]"   the structural characters                           *)
(*   "q"               a double quote                                      *)
(*   "b"               a backslash                                         *)
(*   ","               the comma between two array elements                *)
(*   "w"               white space                                         *)
(*   "x"               any other text (noise)                              *)
(*   "h"               "type":"FeatureCollection", ... "features":         *)
(*                     (after "{" it begins with the text of the marker    *)
(*                     {"type":"Feature, as the features do)               *)
(*   "1" "2" ...       "type":"Feature","properties":{...},"geometry":{..} *)
(*                     of the feature with that number (balanced inside)   *)
(*   "u"               the same with "properties":null                     *)
(*   "n"               a member list with no "type":"Feature"              *)
(*   "0"               the JSON literal null                               *)
(* All text is ASCII: one byte is one character.                           *)
(*                                                                         *)
(* Byte sizes of the program (5 MB windows, 200 MB / 500 MB tiers, ...)    *)
(* are scaled down to a few tokens; every size keeps the name it has in    *)
(* the source, and each is scaled within the function that declares it.    *)
(***************************************************************************)
EXTENDS Integers, Sequences, FiniteSets, TLC

\* ---------------------------------------------------------------- sizes
\* extractFeaturesFromFile: CHUNK_SIZE = 5 * 1024 * 1024
CHUNK_SIZE == 4
\* extractFeaturesFromFile: Math.max(bytesRead / 2, 1024)
MIN_ADVANCE == 1
\* extractFeaturesFromFile: Buffer.alloc(10000)
SmallHeaderSize == 3
\* processLargeCaliforniaFile: headerSize = 5 * 1024 * 1024
headerSize == 4
\* processWithChunks: CHUNK_SIZE = 2 * 1024 * 1024
PWC_CHUNK_SIZE == 8
\* processGiantFileSimplified: SAMPLE_SIZE = 2 * 1024 * 1024
SAMPLE_SIZE == 5
\* handleLargeGeoJSONFile: fileSize > 200 * 1024 * 1024
DirectLimit == 12
\* handleLargeGeoJSONFile: fileSize > 500 * 1024 * 1024
SegmentLimit == 16

\* ---------------------------------------------------------------- helpers
Min(a, b) == IF a < b THEN a ELSE b
Max(a, b) == IF a > b THEN a ELSE b

\* text.substring(from) with a 0-based offset `from`
Suffix(s, from) == IF from >= Len(s) THEN <<>> ELSE SubSeq(s, from + 1, Len(s))
\* text.substring(0, n)
Prefix(s, n) == IF n <= 0 THEN <<>> ELSE SubSeq(s, 1, Min(n, Len(s)))

FeatureIds == {"1", "2", "3", "4"}
KeyTokens == FeatureIds \cup {"u", "n"}

\* ---------------------------------------------------------------- JSON.parse
\* Recursive descent over tokens.  Each operator takes the index of the first
\* token of what it parses and returns the index after it, or 0 when the text
\* is no JSON there.

RECURSIVE ParseString(_, _)
\* i is the index after the opening quote
ParseString(s, i) ==
    IF i > Len(s) THEN 0
    ELSE IF s[i] = "q" THEN i + 1
    ELSE IF s[i] = "b"
         THEN IF i + 1 <= Len(s) /\ s[i + 1] \in {"q", "b"}
              THEN ParseString(s, i + 2)
              ELSE 0
    ELSE ParseString(s, i + 1)

RECURSIVE ParseValue(_, _)
RECURSIVE ParseValues(_, _, _)
\* values up to the closing token `close`; returns the index after `close`
ParseValues(s, i, close) ==
    IF i > Len(s) THEN 0
    ELSE IF s[i] = close THEN i + 1
    ELSE LET j == ParseValue(s, i)
         IN  IF j = 0 THEN 0 ELSE ParseValues(s, j, close)

ParseValue(s, i) ==
    IF i > Len(s) THEN 0
    ELSE IF s[i] = "{"
         THEN IF i + 1 <= Len(s) /\ s[i + 1] \in KeyTokens
              THEN ParseValues(s, i + 2, "}")
              ELSE ParseValues(s, i + 1, "}")
    ELSE IF s[i] = "[" THEN ParseValues(s, i + 1, "]")
    ELSE IF s[i] = "q" THEN ParseString(s, i + 1)
    ELSE 0

\* JSON.parse(featureText) succeeds: the text is exactly one object
IsObjectText(s) ==
    /\ Len(s) >= 2
    /\ s[1] = "{"
    /\ ParseValue(s, 1) = Len(s) + 1

NoKey == "none"

\* The parsed object, as far as the program looks at it
ParsedObject(s) ==
    LET k == IF Len(s) >= 2 /\ s[2] \in KeyTokens THEN s[2] ELSE NoKey
    IN  [ type       |-> IF k \in FeatureIds \cup {"u"} THEN "Feature" ELSE NoKey,
          properties |-> IF k \in FeatureIds THEN k ELSE NoKey,
          attributes |-> NoKey,
          geometry   |-> IF k \in FeatureIds \cup {"u"} THEN "Point" ELSE NoKey ]

\* feature.type === 'Feature' && feature.properties && feature.geometry
AcceptsFeature(f) ==
    f.type = "Feature" /\ f.properties # NoKey /\ f.geometry # NoKey

\* ---------------------------------------------------------------- window scan
\* The forward scan without the escape flag: every quote toggles inString
ScanCharNoEscape(text, i, st) ==
    LET c      == text[i]
        inStr  == IF c = "q" THEN ~st.inString ELSE st.inString
        open   == ~inStr /\ c = "{"
        close  == ~inStr /\ c = "}"
        depth  == IF open THEN st.depth + 1
                  ELSE IF close THEN st.depth - 1 ELSE st.depth
        done   == close /\ depth = 0 /\ st.start # 0
        cand   == SubSeq(text, st.start, i)
        good   == done /\ IsObjectText(cand) /\ AcceptsFeature(ParsedObject(cand))
    IN  [ depth    |-> depth,
          start    |-> IF open /\ st.depth = 0 THEN i
                       ELSE IF done THEN 0 ELSE st.start,
          inString |-> inStr,
          escape   |-> FALSE,
          features |-> IF good THEN Append(st.features, ParsedObject(cand))
                       ELSE st.features,
          closed   |-> IF done THEN i ELSE st.closed,
          minDepth |-> Min(st.minDepth, depth) ]

\* One character of the forward scan of extractCompleteFeatures.
\* start = 0 stands for the source's start = -1; offsets are 1-based, so the
\* source's i + 1 is i here.
ScanChar(text, i, st) ==
    LET c      == text[i]
        inStr  == IF c = "q" /\ ~st.escape THEN ~st.inString ELSE st.inString
        esc    == IF inStr /\ c = "b" THEN ~st.escape ELSE FALSE
        open   == ~inStr /\ c = "{"
        close  == ~inStr /\ c = "}"
        depth  == IF open THEN st.depth + 1
                  ELSE IF close THEN st.depth - 1 ELSE st.depth
        done   == close /\ depth = 0 /\ st.start # 0
        cand   == SubSeq(text, st.start, i)
        good   == done /\ IsObjectText(cand) /\ AcceptsFeature(ParsedObject(cand))
    IN  [ depth    |-> depth,
          start    |-> IF open /\ st.depth = 0 THEN i
                       ELSE IF done THEN 0 ELSE st.start,
          inString |-> inStr,
          escape   |-> esc,
          features |-> IF good THEN Append(st.features, ParsedObject(cand))
                       ELSE st.features,
          closed   |-> IF done THEN i ELSE st.closed,
          minDepth |-> Min(st.minDepth, depth) ]

ScanInit ==
    [ depth |-> 0, start |-> 0, inString |-> FALSE, escape |-> FALSE,
      features |-> <<>>, closed |-> 0, minDepth |-> 0 ]

RECURSIVE ScanFrom(_, _, _)
ScanFrom(text, i, st) ==
    IF i > Len(text) THEN st ELSE ScanFrom(text, i + 1, ScanChar(text, i, st))

ForwardScan(text) == ScanFrom(text, 1, ScanInit)

\* The backward scan that computes lastFeatureEndPos
RECURSIVE BackwardFrom(_, _, _)
BackwardFrom(text, i, curlyCount) ==
    IF i < 1 THEN 0
    ELSE IF text[i] = "}"
         THEN IF curlyCount + 1 = 1 THEN i
              ELSE BackwardFrom(text, i - 1, curlyCount + 1)
    ELSE IF text[i] = "{" THEN BackwardFrom(text, i - 1, curlyCount - 1)
    ELSE BackwardFrom(text, i - 1, curlyCount)

BackwardScan(text) == BackwardFrom(text, Len(text), 0)

\* The feature that the forward scan holds open at the end of the text:
\* start is set, and the members of a feature follow the opening brace
HeldOpen(text) ==
    LET fwd == ForwardScan(text)
    IN  IF fwd.start # 0 /\ fwd.start + 1 <= Len(text)
           /\ text[fwd.start + 1] \in FeatureIds
        THEN {text[fwd.start + 1]}
        ELSE {}

extractCompleteFeatures(text) ==
    LET fwd == ForwardScan(text)
    IN  [ features     |-> fwd.features,
          lastComplete |-> IF Len(fwd.features) > 0 THEN BackwardScan(text) ELSE 0,
          closed       |-> fwd.closed,
          minDepth     |-> fwd.minDepth ]


\* ---------------------------------------------------------------- JSON.parse of a whole file
IsSpace(c) == c = "w"

RECURSIVE TrimRight(_)
TrimRight(s) ==
    IF Len(s) > 0 /\ IsSpace(s[Len(s)]) THEN TrimRight(SubSeq(s, 1, Len(s) - 1)) ELSE s

RECURSIVE TrimLeft(_)
TrimLeft(s) ==
    IF Len(s) > 0 /\ IsSpace(s[1]) THEN TrimLeft(Tail(s)) ELSE s

\* String.prototype.trim
Trim(s) == TrimLeft(TrimRight(s))

\* The elements of an array whose first element starts at i: the sequence of
\* parsed elements and the index after the closing "]" (0: no JSON).
RECURSIVE ParseElements(_, _, _)
ParseElements(s, i, acc) ==
    LET j == ParseValue(s, i)
    IN  IF j = 0 \/ j > Len(s) THEN [next |-> 0, elements |-> <<>>]
        ELSE LET el == Append(acc, ParsedObject(SubSeq(s, i, j - 1)))
             IN  IF s[j] = "]" THEN [next |-> j + 1, elements |-> el]
                 ELSE IF s[j] = "," THEN ParseElements(s, j + 1, el)
                 ELSE [next |-> 0, elements |-> <<>>]

ParseArray(s, i) ==
    IF i + 1 > Len(s) \/ s[i] # "[" THEN [next |-> 0, elements |-> <<>>]
    ELSE IF s[i + 1] = "]" THEN [next |-> i + 2, elements |-> <<>>]
    ELSE ParseElements(s, i + 1, <<>>)

NoData == [ok |-> FALSE, kind |-> "none", elements |-> <<>>]

\* JSON.parse(fileContent): ok = FALSE stands for the SyntaxError it throws.
\* kind: "collection" (an object with type FeatureCollection and a features
\* array), "array", "null", "object" (any other object).
JSONparse(content) ==
    LET s == Trim(content)
    IN  IF Len(s) = 0 THEN NoData
        ELSE IF s = <<"0">> THEN [ok |-> TRUE, kind |-> "null", elements |-> <<>>]
        ELSE IF s[1] = "["
             THEN LET a == ParseArray(s, 1)
                  IN  IF a.next = Len(s) + 1
                      THEN [ok |-> TRUE, kind |-> "array", elements |-> a.elements]
                      ELSE NoData
        ELSE IF Len(s) >= 2 /\ s[1] = "{" /\ s[2] = "h"
             THEN LET a == ParseArray(s, 3)
                  IN  IF a.next = Len(s) /\ s[Len(s)] = "}"
                      THEN [ok |-> TRUE, kind |-> "collection", elements |-> a.elements]
                      ELSE NoData
        ELSE IF IsObjectText(s)
             THEN [ok |-> TRUE, kind |-> "object", elements |-> <<ParsedObject(s)>>]
        ELSE NoData

\* (fixed.match(/c/g) || []).length
RECURSIVE CountToken(_, _)
CountToken(s, c) ==
    IF Len(s) = 0 THEN 0
    ELSE (IF s[1] = c THEN 1 ELSE 0) + CountToken(Tail(s), c)

fixBrokenJson(jsonString) ==
    LET f1 == IF CountToken(jsonString, "{") > CountToken(jsonString, "}")
              THEN Trim(jsonString) \o <<"}">> ELSE jsonString
        f2 == IF CountToken(f1, "[") > CountToken(f1, "]")
              THEN Trim(f1) \o <<"]">> ELSE f1
    IN  f2

\* ---------------------------------------------------------------- results
Undefined == "undefined"
NoCount == -1

\* The object a strategy returns.  simplified is "true", "false" or Undefined
\* (the field is not set); totalFeatures is NoCount when not set; error is
\* NoKey when not set.
MkResult(feats, simplified, total, err, note) ==
    [ type |-> "FeatureCollection", features |-> feats, simplified |-> simplified,
      totalFeatures |-> total, error |-> err, note |-> note ]

Bool(b) == IF b THEN "true" ELSE "false"

\* An outcome is what a call does: returns `result`, or throws `error`.
Returns(r) == [threw |-> FALSE, result |-> r, error |-> NoKey]
Throws(e) == [threw |-> TRUE, result |-> MkResult(<<>>, Undefined, NoCount, NoKey, NoKey),
              error |-> e]

\* features.slice(0, maxFeatures), maxFeatures >= 0
Slice(feats, maxFeatures) == Prefix(feats, maxFeatures)

\* ---------------------------------------------------------------- the file system
\* fileState: "ok"; "missing" (statSync, openSync, readFileSync throw ENOENT);
\* "unreadable" (statSync succeeds; openSync and readFileSync throw EACCES);
\* "readerror" (statSync and openSync succeed; readSync and readFileSync throw).
StatThrows(st) == st = "missing"
OpenThrows(st) == st \in {"missing", "unreadable"}
ReadThrows(st) == st = "readerror"
ReadFileThrows(st) == st # "ok"

\* The bytes readSync returns for (length, position)
ReadAt(f, length, pos) ==
    IF pos >= Len(f) THEN <<>> ELSE SubSeq(f, pos + 1, Min(pos + length, Len(f)))

\* ---------------------------------------------------------------- direct parse
\* handleLargeGeoJSONFile, the in-memory tier (lines 59-103)
DirectParse(f, st, maxFeatures) ==
    IF ReadFileThrows(st) THEN Throws("read")
    ELSE LET d1   == JSONparse(f)
             data == IF d1.ok THEN d1 ELSE JSONparse(fixBrokenJson(f))
         IN  IF ~data.ok THEN Throws("syntax")
             ELSE IF data.kind = "null" THEN Throws("type")
             ELSE IF data.kind = "collection"
                  THEN Returns(MkResult(Slice(data.elements, maxFeatures),
                                        Bool(Len(data.elements) > maxFeatures),
                                        Len(data.elements), NoKey, NoKey))
             ELSE Returns(MkResult(<<>>, "false", NoCount, NoKey, NoKey))

\* ---------------------------------------------------------------- processWithChunks
\* The header pattern /\{\s*"type"\s*:\s*"FeatureCollection".*?"features"\s*:\s*\[/s
\* matches at 1-based index m when the tokens there are "{" "h" "[".
HeaderMatchAt(t, m) ==
    m + 2 <= Len(t) /\ t[m] = "{" /\ t[m + 1] = "h" /\ t[m + 2] = "["

\* The index of the leftmost match, 0 when headerText.match(...) is null
HeaderMatch(t) ==
    IF \E m \in 1..Len(t) : HeaderMatchAt(t, m)
    THEN CHOOSE m \in 1..Len(t) :
            HeaderMatchAt(t, m) /\ \A k \in 1..(m - 1) : ~HeaderMatchAt(t, k)
    ELSE 0

\* One character of the scan of the first chunk (lines 477-518); depth starts
\* at 1, stopped stands for the break at maxFeatures.
PwcScanChar(text, i, st, maxFeatures) ==
    LET c      == text[i]
        inStr  == IF c = "q" /\ ~st.escape THEN ~st.inString ELSE st.inString
        esc    == IF inStr /\ c = "b" THEN ~st.escape ELSE FALSE
        open   == ~inStr /\ c = "{"
        close  == ~inStr /\ c = "}"
        depth  == IF open THEN st.depth + 1
                  ELSE IF close THEN st.depth - 1 ELSE st.depth
        done   == close /\ depth = 1 /\ st.inFeature
        cand   == SubSeq(text, st.featureStart, i)
        good   == done /\ IsObjectText(cand) /\ AcceptsFeature(ParsedObject(cand))
        feats  == IF good THEN Append(st.features, ParsedObject(cand)) ELSE st.features
    IN  [ depth        |-> depth,
          inFeature    |-> IF open /\ ~st.inFeature THEN TRUE
                           ELSE IF done /\ ~(good /\ Len(feats) >= maxFeatures)
                                THEN FALSE ELSE st.inFeature,
          featureStart |-> IF open /\ ~st.inFeature THEN i ELSE st.featureStart,
          inString     |-> inStr,
          escape       |-> esc,
          features     |-> feats,
          stopped      |-> good /\ Len(feats) >= maxFeatures ]

RECURSIVE PwcScanFrom(_, _, _, _)
PwcScanFrom(text, i, st, maxFeatures) ==
    IF i > Len(text) \/ st.stopped THEN st
    ELSE PwcScanFrom(text, i + 1, PwcScanChar(text, i, st, maxFeatures), maxFeatures)

PwcScanInit ==
    [ depth |-> 1, inFeature |-> FALSE, featureStart |-> 1,
      inString |-> FALSE, escape |-> FALSE, features |-> <<>>, stopped |-> FALSE ]

PwcScan(text, maxFeatures) == PwcScanFrom(text, 1, PwcScanInit, maxFeatures)

\* The features found in the first chunk (lines 445-526); <<>> when the header
\* pattern does not match.  content is the matched text, so the offset
\* featuresArrayStart counts from the start of the match.
PwcFirstChunk(f, maxFeatures) ==
    LET headerText == ReadAt(f, PWC_CHUNK_SIZE, 0)
        m          == HeaderMatch(headerText)
        content    == SubSeq(headerText, m, m + 2)
        featuresArrayStart == Len(content)
        remainingHeader == Suffix(headerText, featuresArrayStart)
    IN  IF m = 0 THEN <<>> ELSE PwcScan(remainingHeader, maxFeatures).features

\* const fd = fs.openSync(...); fs.readSync(fd, ...); fs.closeSync(fd): the
\* descriptors left open, one when readSync throws
HeaderReadLeak(st) == IF ~OpenThrows(st) /\ ReadThrows(st) THEN 1 ELSE 0

\* The descriptors that a call of processWithChunks leaves open (lines 436-449)
ChunksLeak(st) == IF StatThrows(st) THEN 0 ELSE HeaderReadLeak(st)

\* The whole-file fallback of processWithChunks (lines 528-551)
PwcFullFile(f, st, maxFeatures) ==
    IF ReadFileThrows(st) THEN Throws("read")
    ELSE LET data == JSONparse(f)
         IN  IF ~data.ok THEN Throws("syntax")
             ELSE IF data.kind = "null" THEN Throws("type")
             ELSE IF data.kind = "collection"
                  THEN Returns(MkResult(Slice(data.elements, maxFeatures), Undefined,
                                        Len(data.elements), NoKey, NoKey))
             ELSE Throws("Failed to extract features")

\* processWithChunks comes to fs.readFileSync(filePath, 'utf8') at line 531:
\* the first chunk was read and gave no feature
ChunksReadWholeFile(f, st, maxFeatures) ==
    /\ ~StatThrows(st) /\ ~OpenThrows(st) /\ ~ReadThrows(st)
    /\ Len(PwcFirstChunk(f, maxFeatures)) = 0

processWithChunks(f, st, maxFeatures) ==
    IF StatThrows(st) THEN Throws("stat")
    ELSE IF OpenThrows(st) THEN Throws("open")
    ELSE IF ReadThrows(st) THEN Throws("read")
    ELSE LET features == PwcFirstChunk(f, maxFeatures)
         IN  IF Len(features) > 0
             THEN Returns(MkResult(features, Undefined, Len(features), NoKey, NoKey))
             ELSE PwcFullFile(f, st, maxFeatures)

\* ---------------------------------------------------------------- processGiantFileSimplified
\* text.indexOf('{"type":"Feature"', pos): the 1-based index of the first "{"
\* at or after index `from` that a feature's members follow; 0 for -1.
\* The text {"type":"FeatureCollection" begins with the marker as well.
IsMarkerAt(text, i) ==
    i + 1 <= Len(text) /\ text[i] = "{" /\ text[i + 1] \in FeatureIds \cup {"u", "h"}

MarkerIndex(text, from) ==
    IF \E i \in from..Len(text) : IsMarkerAt(text, i)
    THEN CHOOSE i \in from..Len(text) :
            IsMarkerAt(text, i) /\ \A k \in from..(i - 1) : ~IsMarkerAt(text, k)
    ELSE 0

\* pos = featureStart + 20: past the 17 characters of the marker
MarkerSkip == 2

\* One character of the scan for the end of a feature (lines 629-656)
SamplerScanChar(text, i, st) ==
    LET c     == text[i]
        inStr == IF c = "q" /\ ~st.escape THEN ~st.inString ELSE st.inString
        esc   == IF inStr /\ c = "b" THEN ~st.escape ELSE FALSE
        count == IF ~inStr /\ c = "{" THEN st.bracketCount + 1
                 ELSE IF ~inStr /\ c = "}" THEN st.bracketCount - 1
                 ELSE st.bracketCount
    IN  [ bracketCount |-> count, inString |-> inStr, escape |-> esc,
          ended |-> ~inStr /\ c = "}" /\ count = 0 ]

SamplerScanInit ==
    [ bracketCount |-> 0, inString |-> FALSE, escape |-> FALSE, ended |-> FALSE ]

\* The scan for the end of the feature that starts at featureStart: the
\* index of its closing brace, 0 for featureEnd = -1.
RECURSIVE FeatureEndFrom(_, _, _)
FeatureEndFrom(text, i, st) ==
    IF i > Len(text) THEN 0
    ELSE LET next == SamplerScanChar(text, i, st)
         IN  IF next.ended THEN i ELSE FeatureEndFrom(text, i + 1, next)

FeatureEnd(text, featureStart) == FeatureEndFrom(text, featureStart, SamplerScanInit)

\* feature.type === 'Feature' && feature.geometry
SamplerAccepts(f) == f.type = "Feature" /\ f.geometry # NoKey

\* The while loop over one sample text (lines 618-676), from 1-based index pos
RECURSIVE SampleText(_, _, _, _)
SampleText(text, pos, features, maxFeatures) ==
    IF pos > Len(text) THEN features
    ELSE LET featureStart == MarkerIndex(text, pos)
         IN  IF featureStart = 0 THEN features
             ELSE LET featureEnd == FeatureEnd(text, featureStart)
                      cand  == SubSeq(text, featureStart, featureEnd)
                      good  == featureEnd # 0 /\ IsObjectText(cand)
                                 /\ SamplerAccepts(ParsedObject(cand))
                      feats == IF good THEN Append(features, ParsedObject(cand))
                               ELSE features
                  IN  IF good /\ Len(feats) >= maxFeatures THEN feats
                      ELSE SampleText(text,
                                      IF featureEnd # 0 THEN featureEnd + 1
                                      ELSE featureStart + MarkerSkip,
                                      feats, maxFeatures)

\* samplePoints: 0 and Math.floor(fileSize * 0.25 / 0.5 / 0.75)
samplePoints(fileSize) ==
    << 0, fileSize \div 4, fileSize \div 2, (3 * fileSize) \div 4 >>

\* The for loop over the sample points (lines 602-681), from the k-th point
RECURSIVE SampleFrom(_, _, _, _, _)
SampleFrom(f, st, k, features, maxFeatures) ==
    IF k > 4 \/ Len(features) >= maxFeatures THEN features
    ELSE IF OpenThrows(st) \/ ReadThrows(st)
         THEN SampleFrom(f, st, k + 1, features, maxFeatures)
    ELSE LET text == ReadAt(f, SAMPLE_SIZE, samplePoints(Len(f))[k])
         IN  SampleFrom(f, st, k + 1,
                        IF Len(text) = 0 THEN features
                        ELSE SampleText(text, 1, features, maxFeatures),
                        maxFeatures)

\* The descriptors that the sample windows from the k-th on leave open
\* (lines 609-611 in the try of lines 607-680)
RECURSIVE SampleLeakFrom(_, _, _, _, _)
SampleLeakFrom(f, st, k, features, maxFeatures) ==
    IF k > 4 \/ Len(features) >= maxFeatures THEN 0
    ELSE IF OpenThrows(st) \/ ReadThrows(st)
         THEN HeaderReadLeak(st) + SampleLeakFrom(f, st, k + 1, features, maxFeatures)
    ELSE LET text == ReadAt(f, SAMPLE_SIZE, samplePoints(Len(f))[k])
         IN  SampleLeakFrom(f, st, k + 1,
                            IF Len(text) = 0 THEN features
                            ELSE SampleText(text, 1, features, maxFeatures),
                            maxFeatures)

SamplerLeak(f, st, maxFeatures) ==
    IF StatThrows(st) THEN 0 ELSE SampleLeakFrom(f, st, 1, <<>>, maxFeatures)

processGiantFileSimplified(f, st, maxFeatures) ==
    IF StatThrows(st) THEN Throws("stat")
    ELSE LET features == SampleFrom(f, st, 1, <<>>, maxFeatures)
         IN  Returns(MkResult(features, "true", Len(features), NoKey, "sample"))

\* ---------------------------------------------------------------- handleGeoJSONFile
\* A geometry is "none" (absent), the type of a GeoJSON geometry (an object
\* with type and coordinates), or one of the ESRI geometries below (objects
\* with no type).
GeoJsonTypes == {"Point", "LineString", "Polygon", "MultiPoint", "MultiLineString",
                 "MultiPolygon"}
EsriGeometries == {"esriRings", "esriPaths", "esriXY", "esriPoints", "esriOther"}

convertEsriGeometry(esriGeometry, geometryType) ==
    IF esriGeometry \in GeoJsonTypes THEN esriGeometry
    ELSE IF esriGeometry = NoKey THEN "Polygon"
    ELSE IF geometryType = "esriGeometryPolygon" \/ esriGeometry = "esriRings"
         THEN "Polygon"
    ELSE IF geometryType = "esriGeometryPolyline" \/ esriGeometry = "esriPaths"
         THEN "MultiLineString"
    ELSE IF geometryType = "esriGeometryPoint" \/ esriGeometry = "esriXY"
         THEN "Point"
    ELSE IF geometryType = "esriGeometryMultiPoint" \/ esriGeometry = "esriPoints"
         THEN "MultiPoint"
    ELSE "Polygon"

\* An item of a features array, and a feature of a result
Item(type, properties, attributes, geometry) ==
    [type |-> type, properties |-> properties, attributes |-> attributes,
     geometry |-> geometry]

\* a || b on fields where "none" is the absent (falsy) value
Or(a, b) == IF a # NoKey THEN a ELSE b

EmptyObject == "{}"

\* An object or array of a parsed document, as findPotentialFeatures reads it:
\* kids are its members (elements) that are objects, in key order.
Node(isArray, type, geometry, properties, attributes, coordinates, kids) ==
    [isArray |-> isArray, type |-> type, geometry |-> geometry,
     properties |-> properties, attributes |-> attributes,
     coordinates |-> coordinates, kids |-> kids]

\* obj.geometry && typeof obj.geometry === 'object' && (obj.properties || obj.attributes)
LooksLikeFeature(obj) ==
    obj.geometry # NoKey /\ (obj.properties # NoKey \/ obj.attributes # NoKey)

\* obj.type && obj.coordinates && [...].includes(obj.type)
LooksLikeGeometry(obj) ==
    obj.type \in GeoJsonTypes /\ obj.coordinates

\* findPotentialFeatures(obj, result, maxFeatures): result.features after the
\* call, given result.features before it
RECURSIVE findPotentialFeatures(_, _, _)
RECURSIVE SearchKids(_, _, _, _)
RECURSIVE SearchItems(_, _, _, _)
findPotentialFeatures(obj, feats, maxFeatures) ==
    IF Len(feats) >= maxFeatures THEN feats
    ELSE IF LooksLikeFeature(obj)
         THEN Append(feats, Item("Feature", Or(obj.properties, obj.attributes),
                                 NoKey, obj.geometry))
    ELSE IF LooksLikeGeometry(obj)
         THEN Append(feats, Item("Feature", EmptyObject, NoKey, obj.type))
    ELSE SearchKids(obj.kids, 1, feats, maxFeatures)

\* for (const key in obj), from the k-th object-valued member
SearchKids(kids, k, feats, maxFeatures) ==
    IF k > Len(kids) THEN feats
    ELSE LET f1 == findPotentialFeatures(kids[k], feats, maxFeatures)
             f2 == IF kids[k].isArray
                   THEN SearchItems(kids[k].kids, 1, f1, maxFeatures)
                   ELSE f1
         IN  SearchKids(kids, k + 1, f2, maxFeatures)

\* for (const item of obj[key]), from the k-th element
SearchItems(items, k, feats, maxFeatures) ==
    IF k > Len(items) THEN feats
    ELSE SearchItems(items, k + 1,
                     findPotentialFeatures(items[k], feats, maxFeatures), maxFeatures)

\* The depth that the call stack of findPotentialFeatures reaches in the call
\* findPotentialFeatures(obj, result, maxFeatures), this call counted
RECURSIVE CallDepth(_, _, _)
RECURSIVE KidsDepth(_, _, _, _)
RECURSIVE ItemsDepth(_, _, _, _)
CallDepth(obj, feats, maxFeatures) ==
    IF Len(feats) >= maxFeatures \/ LooksLikeFeature(obj) \/ LooksLikeGeometry(obj)
    THEN 1
    ELSE 1 + KidsDepth(obj.kids, 1, feats, maxFeatures)

KidsDepth(kids, k, feats, maxFeatures) ==
    IF k > Len(kids) THEN 0
    ELSE LET d1 == CallDepth(kids[k], feats, maxFeatures)
             f1 == findPotentialFeatures(kids[k], feats, maxFeatures)
             d2 == IF kids[k].isArray
                   THEN ItemsDepth(kids[k].kids, 1, f1, maxFeatures)
                   ELSE 0
             f2 == IF kids[k].isArray
                   THEN SearchItems(kids[k].kids, 1, f1, maxFeatures)
                   ELSE f1
         IN  Max(Max(d1, d2), KidsDepth(kids, k + 1, f2, maxFeatures))

ItemsDepth(items, k, feats, maxFeatures) ==
    IF k > Len(items) THEN 0
    ELSE Max(CallDepth(items[k], feats, maxFeatures),
             ItemsDepth(items, k + 1,
                        findPotentialFeatures(items[k], feats, maxFeatures),
                        maxFeatures))

\* The non-standard branch (lines 48-71): the first min(length, maxFeatures)
\* items, each with type 'Feature' and a properties object
RECURSIVE NormalizeItems(_, _, _)
NormalizeItems(items, i, limit) ==
    IF i > limit THEN <<>>
    ELSE << Item("Feature", Or(items[i].properties, EmptyObject),
                 items[i].attributes, items[i].geometry) >>
         \o NormalizeItems(items, i + 1, limit)

\* The features of one layer (lines 135-150), appended to feats
RECURSIVE LayerFeatures(_, _, _, _)
LayerFeatures(layer, i, feats, maxFeatures) ==
    IF i > Len(layer.features) \/ Len(feats) >= maxFeatures THEN feats
    ELSE LET feature == layer.features[i]
             geoJsonFeature ==
                 Item("Feature",
                      Or(feature.attributes, Or(feature.properties, EmptyObject)),
                      NoKey,
                      Or(feature.geometry,
                         convertEsriGeometry(feature.geometry, layer.geometryType)))
         IN  LayerFeatures(layer, i + 1, Append(feats, geoJsonFeature), maxFeatures)

\* for (const layer of data.layers) (lines 131-156), from the k-th layer
RECURSIVE LayersFeatures(_, _, _, _)
LayersFeatures(layers, k, feats, maxFeatures) ==
    IF k > Len(layers) THEN feats
    ELSE LET f1 == IF layers[k].hasFeatures
                   THEN LayerFeatures(layers[k], 1, feats, maxFeatures)
                   ELSE feats
         IN  IF Len(f1) >= maxFeatures THEN f1
             ELSE LayersFeatures(layers, k + 1, f1, maxFeatures)

\* The ESRI branch (lines 81-92): the first min(length, maxFeatures) items
\* converted
RECURSIVE ConvertEsriItems(_, _, _, _)
ConvertEsriItems(items, i, limit, geometryType) ==
    IF i > limit THEN <<>>
    ELSE << Item("Feature", Or(items[i].attributes, EmptyObject), NoKey,
                 convertEsriGeometry(items[i].geometry, geometryType)) >>
         \o ConvertEsriItems(items, i + 1, limit, geometryType)

\* The result of handleGeoJSONFile for the parsed document `data` (lines 34-177)
NormalizeDocument(data, maxFeatures) ==
    IF data.type = "FeatureCollection" /\ data.hasFeatures
    THEN MkResult(Slice(data.features, maxFeatures),
                  Bool(Len(data.features) > maxFeatures), Len(data.features),
                  NoKey, NoKey)
    ELSE IF data.hasFeatures
    THEN MkResult(NormalizeItems(data.features, 1, Min(Len(data.features), maxFeatures)),
                  Bool(Len(data.features) > maxFeatures), Len(data.features),
                  NoKey, NoKey)
    ELSE IF data.geometryType # NoKey /\ data.spatialReference # NoKey /\ data.hasFeatures
    THEN MkResult(ConvertEsriItems(data.features, 1,
                                   Min(Len(data.features), maxFeatures), data.geometryType),
                  Bool(Len(data.features) > maxFeatures), Len(data.features),
                  NoKey, NoKey)
    ELSE IF data.type = "Feature" /\ data.geometry # NoKey
    THEN MkResult(<< Item(data.type, data.properties, data.attributes, data.geometry) >>,
                  "false", 1, NoKey, NoKey)
    ELSE IF data.type \in {"Polygon", "MultiPolygon", "Point", "LineString"}
    THEN MkResult(<< Item("Feature", EmptyObject, NoKey, data.type) >>,
                  "false", 1, NoKey, NoKey)
    ELSE IF data.hasLayers
    THEN LET feats == LayersFeatures(data.layers, 1, <<>>, maxFeatures)
             featureCount == Len(feats)
         IN  MkResult(feats, Bool(featureCount > maxFeatures), featureCount, NoKey, NoKey)
    ELSE LET feats == findPotentialFeatures(data, <<>>, maxFeatures)
         IN  IF Len(feats) > 0
             THEN MkResult(feats, "false", Len(feats), NoKey, NoKey)
             ELSE MkResult(<<>>, "false", NoCount, NoKey, NoKey)

\* The try block of handleGeoJSONFile (lines 22-177): data is what JSON.parse
\* gives for the content of the file (kind "syntax": it throws)
UniversalTry(data, st, maxFeatures) ==
    IF StatThrows(st) THEN Throws("stat")
    ELSE IF ReadFileThrows(st) THEN Throws("read")
    ELSE IF data.kind = "syntax" THEN Throws("syntax")
    ELSE IF data.kind = "null" THEN Throws("type")
    ELSE Returns(NormalizeDocument(data, maxFeatures))

\* The catch block of handleGeoJSONFile (lines 179-188)
UniversalCatch(err) == Returns(MkResult(<<>>, Undefined, NoCount, err, NoKey))

handleGeoJSONFile(data, st, maxFeatures) ==
    LET out == UniversalTry(data, st, maxFeatures)
    IN  IF out.threw THEN UniversalCatch(out.error) ELSE out

\* ---------------------------------------------------------------- inputs
\* The text of one feature: "{", its members, a body, "}".
Shapes == {"plain", "nested", "array", "strOpen", "strClose", "escQuote", "escBackslash"}

ShapeBody(shape) ==
    CASE shape = "plain"        -> <<>>
      [] shape = "nested"       -> <<"{", "}">>
      [] shape = "array"        -> <<"[", "]">>
      [] shape = "strOpen"      -> <<"q", "{", "q">>
      [] shape = "strClose"     -> <<"q", "}", "q">>
      [] shape = "escQuote"     -> <<"q", "b", "q", "{", "q">>
      [] shape = "escBackslash" -> <<"q", "{", "b", "b", "q">>

FeatureText(key, shape) == <<"{", key>> \o ShapeBody(shape) \o <<"}">>

IdOf(i) == CASE i = 1 -> "1" [] i = 2 -> "2" [] i = 3 -> "3" [] OTHER -> "4"

\* Feature i of a file of n features: plain, but for the one at index sp
RECURSIVE FeatureList(_, _, _, _)
FeatureList(i, n, sp, shape) ==
    IF i > n THEN <<>>
    ELSE (IF i > 1 THEN <<",">> ELSE <<>>)
         \o FeatureText(IdOf(i), IF i = sp THEN shape ELSE "plain")
         \o FeatureList(i + 1, n, sp, shape)

RECURSIVE Padding(_)
Padding(k) == IF k = 0 THEN <<>> ELSE <<"w">> \o Padding(k - 1)

\* A well-formed FeatureCollection of n features followed by pad white space
CollectionFile(n, sp, shape, pad) ==
    <<"{", "h", "[">> \o FeatureList(1, n, sp, shape) \o <<"]", "}">> \o Padding(pad)

RECURSIVE Noise(_, _)
Noise(c, k) == IF k = 0 THEN <<>> ELSE <<c>> \o Noise(c, k - 1)

\* Bounds of the inputs
MaxN == 3
MaxCap == 3
MaxNoise == 6
MaxRepeat == 6
PadStep == 5

Pads == {0, PadStep, 2 * PadStep}

WellFormedFiles ==
    { CollectionFile(n, 0, "plain", pad) : n \in 0..MaxN, pad \in Pads }
    \cup { CollectionFile(n, sp, shape, pad) :
             n \in 1..MaxN, sp \in 1..MaxN, shape \in Shapes \ {"plain"}, pad \in Pads }

\* A file cut short: a proper, non-empty prefix of a well-formed file
TruncatedFiles ==
    UNION { { Prefix(f, c) : c \in 1..(Len(f) - 1) } :
              f \in { g \in WellFormedFiles : g[Len(g)] = "}" } }

NoiseFiles ==
    { Noise(c, k) : c \in {"x", "{", "}"}, k \in 1..MaxNoise }
    \cup { <<"0">>, <<"[", "{", "1", "}", "]">>, <<"{", "1", "}">>,
           <<"[", "{", "1", "}", ",">> }

\* The header of a collection and then text that holds no complete object
NoisePatterns == { <<"x">>, <<"{">>, <<"}">>, <<"q">>, <<"{", "1">>, <<"{", "x", "q">>,
                   <<"}", "{">> }

Repeat(pattern, len) == [ i \in 1..len |-> pattern[((i - 1) % Len(pattern)) + 1] ]

HeaderNoiseFiles ==
    { <<"{", "h", "[">> \o Repeat(pattern, len) :
        pattern \in NoisePatterns, len \in (SegmentLimit - 2)..(SegmentLimit + MaxRepeat) }

InputFiles == WellFormedFiles \cup TruncatedFiles \cup NoiseFiles \cup HeaderNoiseFiles

FileStates == {"ok", "missing", "unreadable", "readerror"}

\* A parsed document.  kind: "object", "null", or "syntax" (no JSON).
BaseDoc ==
    [ kind |-> "object", isArray |-> FALSE, type |-> NoKey,
      hasFeatures |-> FALSE, features |-> <<>>,
      geometryType |-> NoKey, spatialReference |-> NoKey,
      geometry |-> NoKey, properties |-> NoKey, attributes |-> NoKey,
      coordinates |-> FALSE, hasLayers |-> FALSE, layers |-> <<>>, kids |-> <<>> ]

GeoJsonItems(n) == [i \in 1..n |-> Item("Feature", IdOf(i), NoKey, "Point")]
EsriItems(n) == [i \in 1..n |-> Item(NoKey, NoKey, IdOf(i), "esriRings")]
BareItems(n) == [i \in 1..n |-> Item(NoKey, NoKey, NoKey, "Point")]

CollectionDoc(n) ==
    [BaseDoc EXCEPT !.type = "FeatureCollection", !.hasFeatures = TRUE,
                    !.features = GeoJsonItems(n)]
EsriDoc(n) ==
    [BaseDoc EXCEPT !.hasFeatures = TRUE, !.features = EsriItems(n),
                    !.geometryType = "esriGeometryPolygon", !.spatialReference = "wkid"]
NonStandardDoc(n) == [BaseDoc EXCEPT !.hasFeatures = TRUE, !.features = BareItems(n)]
EsriNoFeaturesDoc ==
    [BaseDoc EXCEPT !.geometryType = "esriGeometryPoint", !.spatialReference = "wkid"]
SingleFeatureDoc(properties, geometry) ==
    [BaseDoc EXCEPT !.type = "Feature", !.properties = properties, !.geometry = geometry]
GeometryDoc(type) == [BaseDoc EXCEPT !.type = type, !.coordinates = TRUE]

Layer(name, geometryType, items) ==
    [name |-> name, geometryType |-> geometryType, hasFeatures |-> TRUE,
     features |-> items]
EmptyLayer == [name |-> NoKey, geometryType |-> NoKey, hasFeatures |-> FALSE,
               features |-> <<>>]
LayersDoc(layers) == [BaseDoc EXCEPT !.hasLayers = TRUE, !.layers = layers]

\* Members of a document that is none of the known shapes
FeatureNode(i) == Node(FALSE, NoKey, "Point", IdOf(i), NoKey, FALSE, <<>>)
EsriNode(i) == Node(FALSE, NoKey, "esriXY", NoKey, IdOf(i), FALSE, <<>>)
GeometryNode(type) == Node(FALSE, type, NoKey, NoKey, NoKey, TRUE, <<>>)
ObjectNode(kids) == Node(FALSE, NoKey, NoKey, NoKey, NoKey, FALSE, kids)
ArrayNode(kids) == Node(TRUE, NoKey, NoKey, NoKey, NoKey, FALSE, kids)
NestedDoc(kids) == [BaseDoc EXCEPT !.kids = kids]

FeatureNodes(n) == [i \in 1..n |-> FeatureNode(i)]

\* One feature under d objects nested in one another
MaxNesting == 4

RECURSIVE Chain(_)
Chain(d) == IF d = 0 THEN << FeatureNode(1) >> ELSE << ObjectNode(Chain(d - 1)) >>

ChainDocs == { NestedDoc(Chain(d)) : d \in 0..MaxNesting }

Documents ==
    { CollectionDoc(n) : n \in 0..MaxN }
    \cup { EsriDoc(n) : n \in 0..MaxN }
    \cup { NonStandardDoc(n) : n \in 1..MaxN }
    \cup { EsriNoFeaturesDoc, BaseDoc,
           [BaseDoc EXCEPT !.kind = "null"], [BaseDoc EXCEPT !.kind = "syntax"],
           SingleFeatureDoc("1", "Point"), SingleFeatureDoc(NoKey, "Polygon"),
           SingleFeatureDoc("1", NoKey) }
    \cup { GeometryDoc(t) : t \in GeoJsonTypes }
    \cup { LayersDoc(<< Layer("a", NoKey, GeoJsonItems(n)) >>) : n \in 0..MaxN }
    \cup { LayersDoc(<< Layer("a", "esriGeometryPolygon", EsriItems(n)), EmptyLayer,
                        Layer(NoKey, "esriGeometryPoint", BareItems(m)) >>) :
             n \in 1..MaxN, m \in 0..MaxN }
    \cup { NestedDoc(<< ObjectNode(FeatureNodes(n)) >>) : n \in 1..MaxN }
    \cup { NestedDoc(<< ArrayNode(FeatureNodes(n)) >>) : n \in 1..MaxN }
    \cup ChainDocs
    \cup { NestedDoc(<< ObjectNode(<< ObjectNode(<< EsriNode(1), GeometryNode(t) >>),
                                      ArrayNode(FeatureNodes(n)) >>) >>) :
             n \in 0..MaxN, t \in {"Point", "MultiPoint"} }

VARIABLES
    entry,        \* the entry point called: "large" or "universal"
    file,         \* the bytes of the file at filePath
    fileState,    \* what the file system does with filePath
    doc,          \* entry "universal": what JSON.parse gives for the content
    maxFeatures,  \* the argument maxFeatures
    pc,           \* where the call is
    position,     \* extractFeaturesFromFile: position, in quarters of a byte
    remainder,    \* extractFeaturesFromFile: remainder
    features,     \* extractFeaturesFromFile: features
    bytesRead,    \* extractFeaturesFromFile: bytesRead of the last read
    fdOffset,     \* the file offset of fileDescriptor
    iterations,   \* completed iterations of the scan loop
    branches,     \* the carry-over branches those iterations took
    window,       \* the text of the window of the last iteration
    straddled,    \* the features that a window held open at its end
    openFds,      \* the descriptors opened in this call and not closed
    deadline,     \* the wall clock: "pending" or "elapsed"
    wtext,        \* a window text given to the forward scan alone
    wi,           \* the characters of wtext scanned so far
    wst,          \* the state of that scan (extractCompleteFeatures)
    wpwc,         \* the state of that scan (processWithChunks)
    wsmp,         \* the state of that scan (processGiantFileSimplified)
    ran,          \* the strategies run so far, in order
    firstError,   \* err.message of the error the outer catch caught
    outcome,      \* "pending", "returned" or "thrown"
    result,       \* the object returned
    other         \* a second call of handleLargeGeoJSONFile that waits at an
                  \* await: << its state >>, or << >> when there is none

vars == << entry, file, fileState, doc, maxFeatures, pc, position, remainder, features,
           bytesRead, fdOffset, iterations, branches, window, straddled, openFds,
           deadline, wtext, wi, wst, wpwc, wsmp, ran, firstError, outcome, result,
           other >>

windowVars == << wtext, wi, wst, wpwc, wsmp >>
scanVars == << position, remainder, features, bytesRead, fdOffset, iterations, branches,
               window, straddled, windowVars >>
inputVars == << entry, file, fileState, doc, maxFeatures, other >>

NoResultYet == MkResult(<<>>, Undefined, NoCount, NoKey, NoKey)

\* A call of handleLargeGeoJSONFile
InitLarge ==
    /\ entry = "large"
    /\ file \in InputFiles
    /\ fileState \in FileStates
    /\ fileState # "ok" => file \in { CollectionFile(MaxN, 0, "plain", pad) : pad \in Pads }
    /\ doc = BaseDoc

\* A call of handleGeoJSONFile
InitUniversal ==
    /\ entry = "universal"
    /\ file = <<>>
    /\ fileState \in FileStates
    /\ doc \in Documents
    /\ fileState # "ok" => doc = CollectionDoc(MaxN)

Init ==
    /\ InitLarge \/ InitUniversal
    /\ maxFeatures \in 0..MaxCap
    /\ pc = "start"
    /\ position = 0
    /\ remainder = <<>>
    /\ features = <<>>
    /\ bytesRead = -1
    /\ fdOffset = 0
    /\ iterations = 0
    /\ branches = {}
    /\ window = <<>>
    /\ straddled = {}
    /\ openFds = 0
    /\ deadline = "pending"
    /\ wtext = <<>> /\ wi = 0
    /\ wst = ScanInit /\ wpwc = PwcScanInit /\ wsmp = SamplerScanInit
    /\ ran = <<>>
    /\ firstError = NoKey
    /\ outcome = "pending"
    /\ result = NoResultYet
    /\ other = << >>

\* fs.statSync(filePath).size
fileSize == Len(file)

\* A strategy called from the try block of handleLargeGeoJSONFile ends: its
\* result is returned, or its error is caught at line 104.
PrimaryEnds(out) ==
    IF out.threw
    THEN /\ pc' = "chunked"
         /\ firstError' = out.error
         /\ UNCHANGED << outcome, result >>
    ELSE /\ pc' = "done"
         /\ outcome' = "returned"
         /\ result' = out.result
         /\ UNCHANGED firstError

\* statSync throws at line 46
StartStatFails ==
    /\ pc = "start" /\ entry = "large"
    /\ StatThrows(fileState)
    /\ PrimaryEnds(Throws("stat"))
    /\ UNCHANGED << inputVars, scanVars, openFds, deadline, ran >>

\* fileSize <= 200 MB: lines 59-103
StartDirect ==
    /\ pc = "start" /\ entry = "large"
    /\ ~StatThrows(fileState)
    /\ fileSize <= DirectLimit
    /\ PrimaryEnds(DirectParse(file, fileState, maxFeatures))
    /\ ran' = Append(ran, "direct")
    /\ UNCHANGED << inputVars, scanVars, openFds, deadline >>

\* 200 MB < fileSize <= 500 MB: line 56
StartChunked ==
    /\ pc = "start" /\ entry = "large"
    /\ ~StatThrows(fileState)
    /\ fileSize > DirectLimit /\ fileSize <= SegmentLimit
    /\ PrimaryEnds(processWithChunks(file, fileState, maxFeatures))
    /\ openFds' = openFds + ChunksLeak(fileState)
    /\ ran' = Append(ran, "chunked")
    /\ UNCHANGED << inputVars, scanVars, deadline >>

\* extractFeaturesFromFile, lines 199-214: the offset of the "[" after
\* "features" in the first bytes of the file, 0 when not found
FeaturesStart(f) ==
    LET headerText == ReadAt(f, SmallHeaderSize, 0)
        hs == { i \in 1..Len(headerText) : headerText[i] = "h" }
    IN  IF hs = {} THEN 0
        ELSE LET featuresArrayPos == (CHOOSE i \in hs : \A k \in hs : i <= k) - 1
                 bs == { i \in 1..Len(headerText) :
                           headerText[i] = "[" /\ i - 1 >= featuresArrayPos }
             IN  IF featuresArrayPos > 0 /\ bs # {}
                 THEN (CHOOSE i \in bs : \A k \in bs : i <= k) - 1
                 ELSE 0

\* fileSize > 500 MB: processLargeCaliforniaFile up to the scan loop of
\* extractFeaturesFromFile (lines 135-166, 183-214, 316)
StartSegmented ==
    /\ pc = "start" /\ entry = "large"
    /\ ~StatThrows(fileState)
    /\ fileSize > SegmentLimit
    /\ ran' = Append(ran, "segmented")
    /\ IF OpenThrows(fileState) \/ ReadThrows(fileState)
       THEN /\ PrimaryEnds(Throws(IF OpenThrows(fileState) THEN "open" ELSE "read"))
            /\ openFds' = openFds + HeaderReadLeak(fileState)
            /\ UNCHANGED scanVars
       ELSE IF HeaderMatch(ReadAt(file, headerSize, 0)) = 0
            THEN /\ PrimaryEnds(Throws("Invalid file format"))
                 /\ UNCHANGED << scanVars, openFds >>
       ELSE /\ pc' = "scan"
            /\ position' = 4 * FeaturesStart(file)
            /\ openFds' = openFds + 1
            /\ UNCHANGED << remainder, features, bytesRead, fdOffset, iterations,
                            branches, window, straddled, windowVars, firstError,
                            outcome, result >>
    /\ UNCHANGED << inputVars, deadline >>

\* CarryOver with Math.floor(bytesRead / 2) as the cautious advance, and no
\* minimum
CarryOverHalfStep(text, n, lastComplete, pos, rem) ==
    IF lastComplete > 0
    THEN [ branch    |-> "complete",
           position  |-> pos + 4 * Min(n, lastComplete),
           remainder |-> Suffix(text, lastComplete) ]
    ELSE [ branch    |-> "cautious",
           position  |-> pos + 4 * (n \div 2),
           remainder |-> Suffix(text, Max(Len(text) - CHUNK_SIZE, 0)) ]

\* CarryOver that stays where it is when the window gave no complete feature
CarryOverStalls(text, n, lastComplete, pos, rem) ==
    IF lastComplete > 0
    THEN [ branch    |-> "complete",
           position  |-> pos + 4 * Min(n, lastComplete),
           remainder |-> Suffix(text, lastComplete) ]
    ELSE [ branch    |-> "cautious",
           position  |-> pos,
           remainder |-> Suffix(text, Max(Len(text) - CHUNK_SIZE, 0)) ]

\* Lines 354-388: the position (in quarters of a byte) and the remainder after
\* a window `text` that held the chunk of n bytes, and the branch taken
CarryOverAt(chunkSize, text, n, lastComplete, pos, rem) ==
    IF lastComplete > 0
    THEN [ branch    |-> "complete",
           position  |-> pos + 4 * Min(n, lastComplete),
           remainder |-> Suffix(text, lastComplete) ]
    ELSE IF Len(rem) > chunkSize * 3
         THEN LET nextFeatureStart ==
                      IF chunkSize + 1 <= Len(rem) THEN MarkerIndex(rem, chunkSize + 1) - 1
                      ELSE -1
              IN  IF nextFeatureStart > 0
                  THEN [ branch    |-> "marker",
                         position  |-> pos + 4 * n,
                         remainder |-> Suffix(rem, nextFeatureStart) ]
                  ELSE [ branch    |-> "aggressive",
                         position  |-> pos + 3 * n,
                         remainder |-> Suffix(text, Max(Len(text) - chunkSize, 0)) ]
         ELSE [ branch    |-> "cautious",
                position  |-> pos + Max(2 * n, 4 * MIN_ADVANCE),
                remainder |-> Suffix(text, Max(Len(text) - chunkSize, 0)) ]

\* The same with CHUNK_SIZE as the program has it
CarryOver(text, n, lastComplete, pos, rem) ==
    CarryOverAt(CHUNK_SIZE, text, n, lastComplete, pos, rem)

\* The trim that keeps the oldest characters instead of the most recent
TrimRemainderKeepsFront(rem) ==
    IF Len(rem) > CHUNK_SIZE * 5 THEN Prefix(rem, CHUNK_SIZE * 2) ELSE rem

\* Lines 402-406
TrimRemainderAt(chunkSize, rem) ==
    IF Len(rem) > chunkSize * 5 THEN Suffix(rem, Len(rem) - chunkSize * 2) ELSE rem

TrimRemainder(rem) == TrimRemainderAt(CHUNK_SIZE, rem)

\* The loop ends (lines 408-419) and processLargeCaliforniaFile returns
\* (lines 169-172)
ScanReturns(feats) ==
    /\ pc' = "done"
    /\ outcome' = "returned"
    /\ result' = MkResult(Slice(feats, maxFeatures), Undefined,
                          Len(Slice(feats, maxFeatures)), NoKey, NoKey)
    /\ openFds' = openFds - 1
    /\ UNCHANGED firstError

\* The while condition is false at the head of the loop (line 322)
ScanLoopExit ==
    /\ pc = "scan"
    /\ ~(position < 4 * fileSize /\ Len(features) < maxFeatures)
    /\ ScanReturns(features)
    /\ UNCHANGED << inputVars, scanVars, deadline, ran >>

\* One iteration of the scan loop (lines 322-407).  A read at a position
\* that is no integer depends on the runtime: readSync throws
\* ERR_OUT_OF_RANGE, or it reads at the current offset of the descriptor.
ScanIteration ==
    /\ pc = "scan"
    /\ position < 4 * fileSize /\ Len(features) < maxFeatures
    /\ \E mode \in {"positioned", "throw", "current"} :
         /\ mode = "positioned" <=> position % 4 = 0
         /\ IF mode = "throw"
            THEN /\ PrimaryEnds(Throws("ERR_OUT_OF_RANGE"))
                 /\ openFds' = openFds - 1
                 /\ UNCHANGED scanVars
            ELSE LET chunk == IF mode = "positioned"
                              THEN ReadAt(file, CHUNK_SIZE, position \div 4)
                              ELSE ReadAt(file, CHUNK_SIZE, fdOffset)
                     n     == Len(chunk)
                     text  == remainder \o chunk
                     ex    == extractCompleteFeatures(text)
                     feats == features \o ex.features
                     co    == CarryOver(text, n, ex.lastComplete, position, remainder)
                 IN  /\ bytesRead' = n
                     /\ fdOffset' = IF mode = "current" THEN fdOffset + n ELSE fdOffset
                     /\ IF n = 0
                        THEN /\ ScanReturns(features)
                             /\ UNCHANGED << position, remainder, features, iterations,
                                             branches, window, straddled >>
                        ELSE /\ position' = co.position
                             /\ features' = feats
                             /\ iterations' = iterations + 1
                             /\ branches' = branches \cup {co.branch}
                             /\ window' = text
                             /\ straddled' = straddled \cup HeldOpen(text)
                             /\ IF co.position >= 4 * fileSize
                                   \/ Len(feats) >= maxFeatures
                                THEN /\ remainder' = co.remainder
                                     /\ ScanReturns(feats)
                                ELSE /\ remainder' = TrimRemainder(co.remainder)
                                     /\ UNCHANGED << pc, firstError, outcome, result,
                                                     openFds >>
    /\ UNCHANGED << inputVars, windowVars, deadline, ran >>

\* A catch at line 104 that goes on to the sampler whatever processWithChunks did
FallbackChunksThenSampler ==
    /\ pc = "chunked"
    /\ pc' = "sampler"
    /\ openFds' = openFds + ChunksLeak(fileState)
    /\ ran' = Append(ran, "chunked")
    /\ UNCHANGED << inputVars, scanVars, deadline, firstError, outcome, result >>

\* The catch at line 104: processWithChunks (line 110)
FallbackChunks ==
    /\ pc = "chunked"
    /\ LET out == processWithChunks(file, fileState, maxFeatures)
       IN  IF out.threw
           THEN pc' = "sampler" /\ UNCHANGED << outcome, result >>
           ELSE pc' = "done" /\ outcome' = "returned" /\ result' = out.result
    /\ openFds' = openFds + ChunksLeak(fileState)
    /\ ran' = Append(ran, "chunked")
    /\ UNCHANGED << inputVars, scanVars, deadline, firstError >>

\* A last catch that throws the error on
LastCatchRethrows(err) == Throws(err)

\* The catch at line 118: the error-only result, with the message of the
\* first error
LastCatch(err) == Returns(MkResult(<<>>, Undefined, NoCount, err, NoKey))

\* The catch at line 111: processGiantFileSimplified (line 117), and the
\* catch at line 118
FallbackSampler ==
    /\ pc = "sampler"
    /\ LET out   == processGiantFileSimplified(file, fileState, maxFeatures)
           final == IF out.threw THEN LastCatch(firstError) ELSE out
       IN  /\ pc' = "done"
           /\ outcome' = IF final.threw THEN "thrown" ELSE "returned"
           /\ result' = final.result
    /\ openFds' = openFds + SamplerLeak(file, fileState, maxFeatures)
    /\ ran' = Append(ran, "sampler")
    /\ UNCHANGED << inputVars, scanVars, deadline, firstError >>

\* A call of handleGeoJSONFile
CallUniversal ==
    /\ pc = "start" /\ entry = "universal"
    /\ LET out == handleGeoJSONFile(doc, fileState, maxFeatures)
       IN  /\ outcome' = IF out.threw THEN "thrown" ELSE "returned"
           /\ result' = out.result
    /\ pc' = "done"
    /\ ran' = Append(ran, "universal")
    /\ UNCHANGED << inputVars, scanVars, openFds, deadline, firstError >>

\* The wall clock passes the deadline while the primary strategy runs.
\* handleLargeGeoJSONFile sets no timer and reads no clock (lines 33-130):
\* nothing of the call changes.
DeadlineElapses ==
    /\ entry = "large" /\ pc \in {"start", "scan"}
    /\ deadline = "pending"
    /\ deadline' = "elapsed"
    /\ UNCHANGED << inputVars, scanVars, openFds, pc, ran, firstError, outcome, result >>

Next ==
    \/ CallUniversal
    \/ DeadlineElapses
    \/ StartStatFails
    \/ StartDirect
    \/ StartChunked
    \/ StartSegmented
    \/ ScanIteration
    \/ ScanLoopExit
    \/ FallbackChunks
    \/ FallbackSampler

Spec == Init /\ [][Next]_vars

-----------------------------------------------------------------------------
\* handleLargeGeoJSONFile as a function of its arguments and the file: the
\* outcomes that a call can have

\* What extractFeaturesFromFile returns and processLargeCaliforniaFile makes
\* of it (lines 419, 169-172)
ScanResult(feats, max) ==
    Returns(MkResult(Slice(feats, max), Undefined,
                     Len(Slice(feats, max)), NoKey, NoKey))

\* The scan loop (lines 322-419) from the head of an iteration, for a
\* CHUNK_SIZE of chunkSize bytes
RECURSIVE ScanOutcomesAt(_, _, _, _, _, _, _)
ScanOutcomesAt(chunkSize, f, pos, rem, feats, fdo, max) ==
    IF ~(pos < 4 * Len(f) /\ Len(feats) < max)
    THEN { ScanResult(feats, max) }
    ELSE UNION {
        IF mode = "throw" THEN { Throws("ERR_OUT_OF_RANGE") }
        ELSE LET chunk == IF mode = "positioned"
                          THEN ReadAt(f, chunkSize, pos \div 4)
                          ELSE ReadAt(f, chunkSize, fdo)
                 n     == Len(chunk)
                 text  == rem \o chunk
                 ex    == extractCompleteFeatures(text)
                 all   == feats \o ex.features
                 co    == CarryOverAt(chunkSize, text, n, ex.lastComplete, pos, rem)
             IN  IF n = 0 THEN { ScanResult(feats, max) }
                 ELSE IF co.position >= 4 * Len(f) \/ Len(all) >= max
                      THEN { ScanResult(all, max) }
                 ELSE ScanOutcomesAt(chunkSize, f, co.position,
                                     TrimRemainderAt(chunkSize, co.remainder), all,
                                     IF mode = "current" THEN fdo + n ELSE fdo, max)
        : mode \in IF pos % 4 = 0 THEN {"positioned"} ELSE {"throw", "current"} }

ScanOutcomes(f, pos, rem, feats, fdo, max) ==
    ScanOutcomesAt(CHUNK_SIZE, f, pos, rem, feats, fdo, max)

\* The try block of handleLargeGeoJSONFile (lines 44-103)
PrimaryOutcomes(f, st, max) ==
    IF StatThrows(st) THEN { Throws("stat") }
    ELSE IF Len(f) > SegmentLimit
    THEN IF OpenThrows(st) THEN { Throws("open") }
         ELSE IF ReadThrows(st) THEN { Throws("read") }
         ELSE IF HeaderMatch(ReadAt(f, headerSize, 0)) = 0
              THEN { Throws("Invalid file format") }
         ELSE ScanOutcomes(f, 4 * FeaturesStart(f), <<>>, <<>>, 0, max)
    ELSE IF Len(f) > DirectLimit THEN { processWithChunks(f, st, max) }
    ELSE { DirectParse(f, st, max) }

\* The catch chain (lines 104-129) after the primary strategy ended with p
AfterCatch(p, f, st, max) ==
    IF ~p.threw THEN p
    ELSE LET chunked == processWithChunks(f, st, max)
         IN  IF ~chunked.threw THEN chunked
             ELSE LET sampled == processGiantFileSimplified(f, st, max)
                  IN  IF sampled.threw THEN LastCatch(p.error) ELSE sampled

LargeOutcomes(f, st, max) ==
    { AfterCatch(p, f, st, max) : p \in PrimaryOutcomes(f, st, max) }

\* The call has ended as a call alone on the same arguments can end
EndsAsAlone(f, st, max, out, res) ==
    \E o \in LargeOutcomes(f, st, max) :
        /\ out = IF o.threw THEN "thrown" ELSE "returned"
        /\ res = o.result

-----------------------------------------------------------------------------
\* extractFeaturesFromFile with a chunk that holds a whole feature and the
\* beginning of the next one, as the 10 MB of CHUNK_SIZE do for the features
\* of a real file; under CHUNK_SIZE as scaled above a chunk is no longer
\* than a feature.
WideChunk == 6

\* The state of a call at line 322, before the first iteration
InitWide ==
    /\ entry = "large" /\ doc = BaseDoc
    /\ file \in WellFormedFiles /\ fileState = "ok"
    /\ maxFeatures \in 1..(MaxN + 1)
    /\ pc = "scan"
    /\ position = 4 * FeaturesStart(file)
    /\ remainder = <<>> /\ features = <<>>
    /\ bytesRead = -1 /\ fdOffset = 0 /\ iterations = 0 /\ branches = {}
    /\ window = <<>> /\ straddled = {} /\ openFds = 1 /\ deadline = "pending"
    /\ wtext = <<>> /\ wi = 0
    /\ wst = ScanInit /\ wpwc = PwcScanInit /\ wsmp = SamplerScanInit
    /\ ran = <<"segmented">> /\ firstError = NoKey
    /\ outcome = "pending" /\ result = NoResultYet
    /\ other = << >>

\* The scan loop runs to its end (lines 322-419) and
\* processLargeCaliforniaFile returns or throws
WideScan ==
    /\ pc = "scan"
    /\ \E o \in ScanOutcomesAt(WideChunk, file, position, remainder, features,
                                fdOffset, maxFeatures) :
          /\ outcome' = IF o.threw THEN "thrown" ELSE "returned"
          /\ result' = o.result
          /\ firstError' = o.error
    /\ pc' = "done"
    /\ openFds' = openFds - 1
    /\ UNCHANGED << inputVars, scanVars, deadline, ran >>

SpecWide == InitWide /\ [][WideScan]_vars

-----------------------------------------------------------------------------
\* Two calls of handleLargeGeoJSONFile in one process.  A call runs until an
\* await (lines 51, 56, 110, 117, 166) hands the thread to the other call;
\* here any step of a call may be followed by a step of the other one.

\* The arguments and the local variables of the running call
Running ==
    [ file |-> file, fileState |-> fileState, maxFeatures |-> maxFeatures,
      pc |-> pc, position |-> position, remainder |-> remainder,
      features |-> features, bytesRead |-> bytesRead, fdOffset |-> fdOffset,
      iterations |-> iterations, branches |-> branches, window |-> window,
      straddled |-> straddled, ran |-> ran, firstError |-> firstError,
      outcome |-> outcome, result |-> result ]

\* A call that has not started
NewCall(f, st, max) ==
    [ file |-> f, fileState |-> st, maxFeatures |-> max,
      pc |-> "start", position |-> 0, remainder |-> <<>>,
      features |-> <<>>, bytesRead |-> -1, fdOffset |-> 0,
      iterations |-> 0, branches |-> {}, window |-> <<>>,
      straddled |-> {}, ran |-> <<>>, firstError |-> NoKey,
      outcome |-> "pending", result |-> NoResultYet ]

PairFiles ==
    { CollectionFile(n, 0, "plain", pad) : n \in 1..2, pad \in Pads }
    \cup { <<"{", "h", "[", "{", "1", "{", "}", "}", ",", "{", "2", "}", "]">> }

PairCalls ==
    { NewCall(f, "ok", max) : f \in PairFiles, max \in {0, 1, MaxCap} }
    \cup { NewCall(CollectionFile(1, 0, "plain", 0), "missing", 1) }

InitPair ==
    /\ entry = "large" /\ doc = BaseDoc
    /\ \E c \in PairCalls :
          /\ file = c.file /\ fileState = c.fileState /\ maxFeatures = c.maxFeatures
    /\ pc = "start" /\ position = 0 /\ remainder = <<>> /\ features = <<>>
    /\ bytesRead = -1 /\ fdOffset = 0 /\ iterations = 0 /\ branches = {}
    /\ window = <<>> /\ straddled = {} /\ openFds = 0 /\ deadline = "pending"
    /\ wtext = <<>> /\ wi = 0
    /\ wst = ScanInit /\ wpwc = PwcScanInit /\ wsmp = SamplerScanInit
    /\ ran = <<>> /\ firstError = NoKey
    /\ outcome = "pending" /\ result = NoResultYet
    /\ other \in { << c >> : c \in PairCalls }

\* The thread goes to the other call, with remainder a variable of the
\* module that both calls use
YieldSharingRemainder ==
    /\ other # << >>
    /\ other' = << Running >>
    /\ file' = other[1].file /\ fileState' = other[1].fileState
    /\ maxFeatures' = other[1].maxFeatures
    /\ pc' = other[1].pc /\ position' = other[1].position
    /\ features' = other[1].features /\ bytesRead' = other[1].bytesRead
    /\ fdOffset' = other[1].fdOffset /\ iterations' = other[1].iterations
    /\ branches' = other[1].branches /\ window' = other[1].window
    /\ straddled' = other[1].straddled /\ ran' = other[1].ran
    /\ firstError' = other[1].firstError
    /\ outcome' = other[1].outcome /\ result' = other[1].result
    /\ UNCHANGED << entry, doc, remainder, openFds, deadline, windowVars >>

\* The thread goes to the other call: its arguments and local variables
\* (let and const of lines 33-130, 135-177, 183-420) are its own
Yield ==
    /\ other # << >>
    /\ other' = << Running >>
    /\ file' = other[1].file /\ fileState' = other[1].fileState
    /\ maxFeatures' = other[1].maxFeatures
    /\ pc' = other[1].pc /\ position' = other[1].position
    /\ remainder' = other[1].remainder
    /\ features' = other[1].features /\ bytesRead' = other[1].bytesRead
    /\ fdOffset' = other[1].fdOffset /\ iterations' = other[1].iterations
    /\ branches' = other[1].branches /\ window' = other[1].window
    /\ straddled' = other[1].straddled /\ ran' = other[1].ran
    /\ firstError' = other[1].firstError
    /\ outcome' = other[1].outcome /\ result' = other[1].result
    /\ UNCHANGED << entry, doc, openFds, deadline, windowVars >>

NextPair ==
    \/ Yield
    \/ StartStatFails
    \/ StartDirect
    \/ StartChunked
    \/ StartSegmented
    \/ ScanIteration
    \/ ScanLoopExit
    \/ FallbackChunks
    \/ FallbackSampler

SpecPair == InitPair /\ [][NextPair]_vars

-----------------------------------------------------------------------------
\* The three brace scans, one character at a time over the same text

WindowFeatures == 3

RECURSIVE ShapedList(_, _)
ShapedList(i, shapes) ==
    IF i > Len(shapes) THEN <<>>
    ELSE (IF i > 1 THEN <<",">> ELSE <<>>)
         \o FeatureText(IdOf(i), shapes[i]) \o ShapedList(i + 1, shapes)

\* The inside of a features array, every feature of every shape
WindowTexts ==
    { <<"[">> \o ShapedList(1, shapes) \o <<"]">> :
        shapes \in [1..WindowFeatures -> Shapes] }

InitWindow ==
    /\ entry = "window"
    /\ file = <<>> /\ fileState = "ok" /\ doc = BaseDoc
    /\ maxFeatures = WindowFeatures
    /\ pc = "window"
    /\ position = 0 /\ remainder = <<>> /\ features = <<>>
    /\ bytesRead = -1 /\ fdOffset = 0 /\ iterations = 0 /\ branches = {}
    /\ window = <<>> /\ straddled = {} /\ openFds = 0 /\ deadline = "pending"
    /\ wtext \in WindowTexts
    /\ wi = 0
    /\ wst = ScanInit /\ wpwc = PwcScanInit /\ wsmp = SamplerScanInit
    /\ ran = <<>> /\ firstError = NoKey
    /\ outcome = "pending" /\ result = NoResultYet
    /\ other = << >>

\* The next character: lines 227-271, lines 477-514 (until its break), and
\* lines 620-656, where indexOf passes what lies between two features
WindowStep ==
    /\ pc = "window"
    /\ wi < Len(wtext)
    /\ wi' = wi + 1
    /\ wst' = ScanChar(wtext, wi + 1, wst)
    /\ wpwc' = IF wpwc.stopped THEN wpwc
               ELSE PwcScanChar(wtext, wi + 1, wpwc, maxFeatures)
    /\ wsmp' = IF wsmp.bracketCount = 0 /\ ~IsMarkerAt(wtext, wi + 1) THEN wsmp
               ELSE SamplerScanChar(wtext, wi + 1, wsmp)
    /\ UNCHANGED << inputVars, position, remainder, features, bytesRead, fdOffset,
                    iterations, branches, window, straddled, openFds, deadline,
                    wtext, pc, ran, firstError, outcome, result >>

SpecWindow == InitWindow /\ [][WindowStep]_vars
-----------------------------------------------------------------------------
\* The carry-over of lines 354-388 as a function of the window, over
\* remainders on both sides of 3 * CHUNK_SIZE

CarryPatterns == NoisePatterns \cup { <<"x", "x", "x", "{", "2", "x", "x">> }

CarryRemainders ==
    { Repeat(pattern, len) :
        pattern \in CarryPatterns,
        len \in (3 * CHUNK_SIZE - 1)..(3 * CHUNK_SIZE + MaxRepeat) }

CarryChunks ==
    { Repeat(pattern, n) : pattern \in { <<"x">>, <<"{", "3">>, <<"q", "}">>,
                                         <<"{", "4", "}", "x">> },
                           n \in 1..CHUNK_SIZE }

\* The state of the loop at line 344: the remainder, the chunk just read at
\* position, and the window made of the two
InitCarry ==
    /\ entry = "carry"
    /\ file = <<>> /\ fileState = "ok" /\ doc = BaseDoc
    /\ maxFeatures = MaxCap
    /\ pc = "carry"
    /\ remainder \in CarryRemainders
    /\ \E chunk \in CarryChunks :
          /\ window = remainder \o chunk
          /\ bytesRead = Len(chunk)
    /\ position = 4 * SegmentLimit
    /\ features = <<>>
    /\ fdOffset = 0 /\ iterations = 0 /\ branches = {}
    /\ straddled = {} /\ openFds = 1 /\ deadline = "pending"
    /\ wtext = <<>> /\ wi = 0
    /\ wst = ScanInit /\ wpwc = PwcScanInit /\ wsmp = SamplerScanInit
    /\ ran = <<"segmented">> /\ firstError = NoKey
    /\ outcome = "pending" /\ result = NoResultYet
    /\ other = << >>

\* Lines 344-388 for that window
CarryStep ==
    /\ pc = "carry"
    /\ LET ex == extractCompleteFeatures(window)
           co == CarryOver(window, bytesRead, ex.lastComplete, position, remainder)
       IN  /\ features' = features \o ex.features
           /\ position' = co.position
           /\ remainder' = co.remainder
           /\ branches' = {co.branch}
    /\ iterations' = iterations + 1
    /\ pc' = "carried"
    /\ UNCHANGED << inputVars, bytesRead, fdOffset, window, straddled, openFds,
                    deadline, windowVars, ran, firstError, outcome, result >>

SpecCarry == InitCarry /\ [][CarryStep]_vars
-----------------------------------------------------------------------------
\* What the input holds, told without the scanners

Returned == pc = "done" /\ outcome = "returned"

WellFormedInput ==
    entry = "large" /\ fileState = "ok" /\ file \in WellFormedFiles

\* The features of a well-formed collection, by the JSON grammar
FileFeatures == JSONparse(file).elements

RECURSIVE LayerTotal(_, _)
LayerTotal(layers, k) ==
    IF k > Len(layers) THEN 0
    ELSE (IF layers[k].hasFeatures THEN Len(layers[k].features) ELSE 0)
         + LayerTotal(layers, k + 1)

\* The features that a document with a features array or with layers holds
DocumentTotal ==
    IF doc.hasFeatures THEN Len(doc.features)
    ELSE IF doc.hasLayers THEN LayerTotal(doc.layers, 1)
    ELSE 0

SourceTotal ==
    IF entry = "large" THEN Len(FileFeatures) ELSE DocumentTotal

\* C1: a returned result never holds more than maxFeatures features, for
\* every maxFeatures >= 0, every input and both entry points.
ResultWithinCap == Returned => Len(result.features) <= maxFeatures

\* C2: for a well-formed FeatureCollection of N features and a cap of at
\* least one, handleLargeGeoJSONFile returns exactly min(N, maxFeatures)
\* features, whatever tier the size of the file selects.
ReturnsExactCount ==
    (WellFormedInput /\ maxFeatures >= 1 /\ Returned)
        => Len(result.features) = Min(Len(FileFeatures), maxFeatures)

\* C3: when the source holds more features than the result returns, the
\* result is marked simplified.
TruncationIsMarked ==
    ( /\ Returned
      /\ fileState = "ok"
      /\ entry = "large" => file \in WellFormedFiles
      /\ entry = "universal" => doc.kind = "object"
      /\ SourceTotal > Len(result.features) )
        => result.simplified = "true"

\* C4: neither entry point throws: every call ends with a returned object
\* of type FeatureCollection whose features are an array.
NeverThrows ==
    /\ outcome # "thrown"
    /\ pc = "done" =>
          /\ outcome = "returned"
          /\ result.type = "FeatureCollection"
          /\ DOMAIN result.features = 1..Len(result.features)

\* A call whose every strategy failed has ended
AllStrategiesFailed ==
    /\ pc = "done" /\ entry = "large"
    /\ ran = <<"chunked", "sampler">>
    /\ firstError # NoKey
    /\ result.error = firstError

\* C5: for a file that is missing or cannot be read, both entry points
\* return no features and an error field that holds the message.
UnreadableGivesError ==
    (pc = "done" /\ fileState \in {"missing", "unreadable"})
        => /\ outcome = "returned"
           /\ result.features = <<>>
           /\ result.error # NoKey

ScanEnded == pc = "done" /\ ran = <<"segmented">> /\ outcome = "returned"

LongRemainders ==
    { Repeat(pattern, len) :
        pattern \in NoisePatterns,
        len \in (5 * CHUNK_SIZE - 1)..(5 * CHUNK_SIZE + MaxRepeat) }

\* C8: at the start of an iteration the remainder holds at most
\* 5 * CHUNK_SIZE characters, and a remainder over that cap is trimmed to
\* its last 2 * CHUNK_SIZE characters.
RemainderBounded ==
    /\ pc = "scan" => Len(remainder) <= 5 * CHUNK_SIZE
    /\ \A r \in LongRemainders :
          LET t == TrimRemainder(r)
          IN  IF Len(r) > 5 * CHUNK_SIZE
              THEN /\ Len(t) = 2 * CHUNK_SIZE
                   /\ \A i \in 1..Len(t) : t[i] = r[Len(r) - Len(t) + i]
              ELSE t = r

\* An iteration starts with text carried over from the windows before it
IterationWithRemainder ==
    /\ pc = "scan"
    /\ position < 4 * fileSize /\ Len(features) < maxFeatures
    /\ iterations >= 2
    /\ Len(remainder) = CHUNK_SIZE

\* The index after the string literal whose opening quote is at i, by the
\* JSON grammar; the end of the text if it is not closed
StringEnd(text, i) ==
    LET j == ParseString(text, i + 1) IN IF j = 0 THEN Len(text) + 1 ELSE j

\* The indices of text up to k that lie in no string literal
RECURSIVE OutsideStrings(_, _, _)
OutsideStrings(text, i, k) ==
    IF i > k THEN {}
    ELSE IF text[i] = "q" THEN OutsideStrings(text, StringEnd(text, i), k)
    ELSE {i} \cup OutsideStrings(text, i + 1, k)

\* Opening less closing braces outside strings among the first k characters
BraceDepth(text, k) ==
    LET out == OutsideStrings(text, 1, k)
    IN  Cardinality({ i \in out : text[i] = "{" })
          - Cardinality({ i \in out : text[i] = "}" })

WindowIds(feats) == [ i \in 1..Len(feats) |-> feats[i].properties ]

AllWindowIds == [ i \in 1..WindowFeatures |-> IdOf(i) ]

\* C9: the depth of the forward scan counts the braces outside string
\* literals and nothing else, and a text of features with unmatched braces
\* in their strings yields every feature; the same for the scans of
\* processWithChunks and processGiantFileSimplified.
DepthCountsStructuralBraces ==
    pc = "window" =>
        /\ wst.depth = BraceDepth(wtext, wi)
        /\ wpwc.depth = 1 + BraceDepth(wtext, wi)
        /\ wsmp.bracketCount = BraceDepth(wtext, wi)
        /\ wi = Len(wtext) =>
             /\ WindowIds(wst.features) = AllWindowIds
             /\ WindowIds(wpwc.features) = AllWindowIds
             /\ WindowIds(SampleText(wtext, 1, <<>>, maxFeatures)) = AllWindowIds

\* The scans have passed a text whose middle feature holds an escaped quote
\* and an opening brace in a string, and whose last feature holds a closing
\* brace in a string
BracesInStringsScanned ==
    /\ pc = "window"
    /\ wi = Len(wtext)
    /\ wtext = <<"[">> \o ShapedList(1, <<"plain", "escQuote", "strClose">>) \o <<"]">>
    /\ Len(wst.features) = WindowFeatures

\* The features written in full before the end of a file cut short, by the
\* JSON grammar, and the index where the text after them starts
RECURSIVE LeadingElements(_, _, _)
LeadingElements(s, i, acc) ==
    LET j == ParseValue(s, i)
    IN  IF j = 0 THEN [elements |-> acc, rest |-> i]
        ELSE LET el == Append(acc, ParsedObject(SubSeq(s, i, j - 1)))
             IN  IF j <= Len(s) /\ s[j] = ","
                 THEN LeadingElements(s, j + 1, el)
                 ELSE [elements |-> el, rest |-> 0]

WrittenInFull == LeadingElements(file, 4, <<>>)

\* The file ends inside a feature: after the features written in full comes
\* the beginning of one more
TruncatedMidFeature ==
    /\ entry = "large" /\ fileState = "ok"
    /\ file \in TruncatedFiles
    /\ Len(file) >= 5
    /\ WrittenInFull.rest # 0
    /\ WrittenInFull.rest + 1 <= Len(file)
    /\ file[WrittenInFull.rest] = "{"

\* C10: for a file truncated in the middle of a feature and a cap of at
\* least one, handleLargeGeoJSONFile returns the features written in full
\* before the truncation (up to maxFeatures), without the partial one, and
\* does not throw.
TruncatedFileKeepsComplete ==
    (TruncatedMidFeature /\ maxFeatures >= 1 /\ pc = "done")
        => /\ outcome = "returned"
           /\ result.features = Slice(WrittenInFull.elements, maxFeatures)

\* C11: processGiantFileSimplified never throws, whatever the state of the
\* file, and returns a result marked as a sample with at most maxFeatures
\* features.
SamplerAlwaysReturns ==
    pc = "sampler" =>
        LET out == processGiantFileSimplified(file, fileState, maxFeatures)
        IN  /\ ~out.threw
            /\ out.result.type = "FeatureCollection"
            /\ out.result.simplified = "true"
            /\ out.result.note # NoKey
            /\ Len(out.result.features) <= maxFeatures

\* The strategy that ran last
LastRan == IF ran = <<>> THEN NoKey ELSE ran[Len(ran)]

\* C12: when the deadline elapses before the primary strategy finishes, the
\* call ends in the Fallback Sampler, with none of the features of the
\* abandoned strategy, and the result carries emergency: true.
DeadlineGivesEmergencySample ==
    (pc = "done" /\ entry = "large" /\ deadline = "elapsed")
        => /\ LastRan = "sampler"
           /\ result.simplified = "true"
           /\ "emergency" \in DOMAIN result

\* C13: at the return or throw of handleLargeGeoJSONFile every descriptor
\* that a strategy opened is closed: as many are open as at entry.
DescriptorsClosed ==
    (pc = "done" /\ entry = "large") => openFds = 0

\* The document that JSON.parse gives for a result written out as JSON
ResultAsDocument(r) ==
    [BaseDoc EXCEPT !.type = r.type, !.hasFeatures = TRUE, !.features = r.features]

\* C14: a result of handleGeoJSONFile fed back through handleGeoJSONFile
\* with the same maxFeatures comes out equal: the same features, the same
\* totalFeatures and the same simplified marker.
RoundTripIsNoOp ==
    (Returned /\ entry = "universal" /\ fileState = "ok" /\ result.error = NoKey)
        => LET second == NormalizeDocument(ResultAsDocument(result), maxFeatures)
           IN  /\ second.features = result.features
               /\ second.totalFeatures = result.totalFeatures
               /\ second.simplified = result.simplified

IsPrefix(a, b) == Len(a) <= Len(b) /\ a = SubSeq(b, 1, Len(a))

\* C15: the tiers of handleLargeGeoJSONFile are tried in one order: the
\* primary strategy, then processWithChunks, then the sampler.  Each runs
\* only after the one before it has failed, and the error-only result is
\* returned only after the sampler has failed.
FallThroughOrder ==
    entry = "large" =>
        /\ \E primary \in {<<"direct">>, <<"chunked">>, <<"segmented">>, <<>>} :
              IsPrefix(ran, primary \o <<"chunked", "sampler">>)
        /\ pc = "chunked" => firstError # NoKey /\ Len(ran) <= 1
        /\ (pc = "sampler" \/ LastRan = "sampler") =>
              /\ firstError # NoKey
              /\ processWithChunks(file, fileState, maxFeatures).threw
        /\ (pc = "done" /\ result.error # NoKey) =>
              /\ LastRan = "sampler"
              /\ processGiantFileSimplified(file, fileState, maxFeatures).threw

\* A call went through all three tiers and the sampler returned
ThreeTiersRan ==
    /\ pc = "done"
    /\ ran = <<"direct", "chunked", "sampler">>
    /\ result.simplified = "true"
    /\ result.error = NoKey

\* C16: the primary strategy follows from the size of the file alone, the
\* segmented scan above 500 MB, processWithChunks above 200 MB and the
\* in-memory parse up to 200 MB; and the primary strategy of a file above
\* 200 MB never reads the whole file into memory.
PrimaryBySize ==
    (entry = "large" /\ ~StatThrows(fileState) /\ ran # <<>>) =>
        /\ ran[1] = IF fileSize > SegmentLimit THEN "segmented"
                    ELSE IF fileSize > DirectLimit THEN "chunked"
                    ELSE "direct"
        /\ ran[1] = "chunked" => ~ChunksReadWholeFile(file, fileState, maxFeatures)

\* C17: the lastComplete that extractCompleteFeatures returns for a window is
\* the offset just after the last top-level object that the forward scan
\* closed, whatever the window holds.
LastCompleteIsForwardClose ==
    (entry = "large" /\ iterations >= 1) =>
        extractCompleteFeatures(window).lastComplete = ForwardScan(window).closed

\* How many times the scan has emitted the feature of this id
TimesEmitted(id) ==
    Cardinality({ i \in 1..Len(features) : features[i].properties = id })

\* C18: a feature that is still open at the end of a window is kept in
\* remainder from its opening brace on, and once the scan of a well-formed
\* file has read the whole file it has emitted that feature exactly once.
StraddlerEmittedOnce ==
    /\ (WellFormedInput /\ pc = "scan" /\ iterations >= 1 /\ HeldOpen(window) # {})
          => remainder = Suffix(window, ForwardScan(window).start - 1)
    /\ (WellFormedInput /\ ScanEnded /\ Len(features) < maxFeatures)
          => \A id \in straddled : TimesEmitted(id) = 1

DepthNeverNegative ==
    (WellFormedInput /\ iterations >= 1) => ForwardScan(window).minDepth >= 0

\* C21: every feature of a returned result has a geometry and a properties
\* field, whichever path accepted it.
FeaturesHaveGeometryAndProperties ==
    Returned =>
        \A i \in 1..Len(result.features) :
            /\ result.features[i].geometry # NoKey
            /\ result.features[i].properties # NoKey

\* The parsed document has the ESRI shape: geometryType, spatialReference
\* and a features list
EsriShaped ==
    /\ entry = "universal" /\ fileState = "ok" /\ doc.kind = "object"
    /\ doc.type # "FeatureCollection"
    /\ doc.geometryType # NoKey /\ doc.spatialReference # NoKey
    /\ doc.hasFeatures

\* C22: for a document of the ESRI shape handleGeoJSONFile returns Features
\* whose properties are the attributes of the items and whose geometries are
\* GeoJSON geometries, with type and coordinates.
EsriShapeConverted ==
    (Returned /\ EsriShaped) =>
        /\ Len(result.features) = Min(Len(doc.features), maxFeatures)
        /\ \A i \in 1..Len(result.features) :
              /\ result.features[i].type = "Feature"
              /\ result.features[i].properties = Or(doc.features[i].attributes, EmptyObject)
              /\ result.features[i].geometry \in GeoJsonTypes

\* The document is none of the known shapes and goes to findPotentialFeatures
Searched ==
    /\ Returned /\ entry = "universal" /\ fileState = "ok" /\ doc.kind = "object"
    /\ doc.type = NoKey /\ ~doc.hasFeatures /\ ~doc.hasLayers

\* C23: the call stack of findPotentialFeatures stays below a constant that
\* the nesting of the document does not move: a cap that holds for every
\* input holds for the documents nested MaxNesting deep.
RecursionCap == MaxNesting

StackDepthCapped ==
    Searched => CallDepth(doc, <<>>, maxFeatures) <= RecursionCap

\* C24: two calls of handleLargeGeoJSONFile that run interleaved share no
\* state: a step of one call leaves the variables of the other as they
\* are, and each call ends as a call alone on its arguments can end.
CallsAreIndependent ==
    other # << >> =>
        /\ pc = "done" => EndsAsAlone(file, fileState, maxFeatures, outcome, result)
        /\ other[1].pc = "done" =>
              EndsAsAlone(other[1].file, other[1].fileState, other[1].maxFeatures,
                          other[1].outcome, other[1].result)

\* A call has ended after two iterations or more of its scan loop, while
\* the other call waits in the middle of its own scan of another file
EndedBesideSuspendedScan ==
    /\ other # << >>
    /\ pc = "done" /\ ran = <<"segmented">> /\ iterations >= 2
    /\ Len(result.features) >= 1
    /\ other[1].pc = "scan" /\ other[1].iterations >= 1
    /\ other[1].remainder # << >>
    /\ file # other[1].file

\* The text is the part of the file that ends at byte offset `end`
EndsAt(text, end) ==
    /\ Len(text) <= end /\ end <= fileSize
    /\ text = SubSeq(file, end - Len(text) + 1, end)

\* C25: the window of every iteration, remainder + the chunk read at
\* position, is the contiguous part of the file that ends at
\* position + bytesRead: no byte twice, no byte missing.
WindowIsContiguous ==
    [][(entry = "large" /\ iterations' = iterations + 1) =>
          /\ position % 4 = 0
          /\ EndsAt(window', (position \div 4) + bytesRead')]_vars

\* The place in the file of the feature of this id
Rank(id) == CHOOSE i \in 1..4 : IdOf(i) = id

\* C26: the scan of a well-formed file returns no feature of the file twice
\* and returns the features in the order of the file.
NoFeatureTwice ==
    (WellFormedInput /\ ScanEnded) =>
        \A i, j \in 1..Len(result.features) :
            i < j => Rank(result.features[i].properties)
                       < Rank(result.features[j].properties)

\* C27: position is a whole number of bytes whenever the loop is about to
\* read: no carry-over leaves a fraction while position < fileSize.
PositionIsInteger ==
    (entry = "large" /\ pc = "scan" /\ position < 4 * fileSize) => position % 4 = 0

\* C28: within one call of handleLargeGeoJSONFile no strategy runs more
\* than once.
StrategiesRunOnce ==
    entry = "large" => \A i, j \in 1..Len(ran) : i < j => ran[i] # ran[j]

\* C29: the result of processGiantFileSimplified holds no feature of the
\* file twice, whatever the size of the file.
SampleHasNoDuplicates ==
    (entry = "large" /\ Returned /\ LastRan = "sampler" /\ result.error = NoKey) =>
        \A i, j \in 1..Len(result.features) :
            i < j => result.features[i].properties # result.features[j].properties

\* The objects of the document that look like a feature or like a geometry
RECURSIVE FeatureLike(_)
FeatureLike(obj) ==
    IF LooksLikeFeature(obj) \/ LooksLikeGeometry(obj) THEN 1
    ELSE LET RECURSIVE Sum(_)
             Sum(k) == IF k = 0 THEN 0 ELSE FeatureLike(obj.kids[k]) + Sum(k - 1)
         IN  Sum(Len(obj.kids))

\* C30: findPotentialFeatures adds no feature-like object of the document
\* to the result twice, elements of arrays included: the result holds no
\* more features than the document holds feature-like objects.
FoundAtMostOnce ==
    Searched => Len(result.features) <= FeatureLike(doc)
====
